---- MODULE Spec2Model ----
(***************************************************************************)
(* State-machine model of run_gemma_rag.py: the entry point main(), the    *)
(* query runner execute_workflow() and the prompt loop interactive_mode(). *)
(*                                                                         *)
(* A Python str is a sequence of one-character strings.  Standard output   *)
(* is the sequence of print() calls made so far, each an entry             *)
(* [k |-> kind of line, v |-> the interpolated value, as a sequence].      *)
(* The process owns one control position (pc); a statement is one action.  *)
(*                                                                         *)
(* Environment: the lines typed on standard input, the end of the input    *)
(* stream, SIGINT (KeyboardInterrupt) while interactive_mode() is active,  *)
(* and an exception raised by the statements of the PROCESSING branch of   *)
(* the loop (the only place where the program installs a handler for it).  *)
(* Writes to standard output succeed.                                      *)
(***************************************************************************)
EXTENDS Integers, Sequences, FiniteSets, TLC

VARIABLES
    pc,          \* control position of the process
    argv,        \* sys.argv[1:]
    caller,      \* who called execute_workflow: "main" | "loop" | "none"
    query,       \* local `query` of main() / interactive_mode()
    ewQuery,     \* parameter `query` of the active execute_workflow frame
    result,      \* local `result` of execute_workflow: <<>> or <<dict>>
    exc,         \* message of the exception being handled (<<>> when none)
    out,         \* standard output: the print() calls so far
    calls,       \* execute_workflow invocations so far: the argument, and
                 \* how many lines had been read when the call was made
    returns,     \* per invocation: <<>> until it returns, then <<value>>
    consumed,    \* lines input() has returned so far (raw, unstripped)
    stdinClosed, \* input() has hit end of file
    eofReads,    \* number of input() calls that raised EOFError
    raised,      \* messages of the exceptions raised by PROCESSING statements
    sigs,        \* control positions at which a SIGINT was delivered
    exitStatus   \* process exit status, -1 while running

vars == <<pc, argv, caller, query, ewQuery, result, exc, out, calls, returns,
          consumed, stdinClosed, eofReads, raised, sigs, exitStatus>>

----------------------------------------------------------------------------
(* Bounds of the model *)

MaxLines == 2
MaxEOF == 2
MaxFaults == 1

----------------------------------------------------------------------------
(* Strings *)

Whitespace == {" ", "\t"}

LowerChar(c) ==
    CASE c = "Q" -> "q"
      [] c = "U" -> "u"
      [] c = "I" -> "i"
      [] c = "T" -> "t"
      [] c = "E" -> "e"
      [] c = "X" -> "x"
      [] OTHER -> c

\* str.lower()
Lower(s) == [i \in 1..Len(s) |-> LowerChar(s[i])]

RECURSIVE LStrip(_)
LStrip(s) ==
    IF s = <<>> THEN <<>>
    ELSE IF Head(s) \in Whitespace THEN LStrip(Tail(s)) ELSE s

RECURSIVE RStrip(_)
RStrip(s) ==
    IF s = <<>> THEN <<>>
    ELSE IF s[Len(s)] \in Whitespace THEN RStrip(SubSeq(s, 1, Len(s) - 1)) ELSE s

\* str.strip()
Strip(s) == RStrip(LStrip(s))

RECURSIVE Join(_)
\* ' '.join(args)
Join(args) ==
    IF args = <<>> THEN <<>>
    ELSE IF Len(args) = 1 THEN args[1]
    ELSE args[1] \o <<" ">> \o Join(Tail(args))

\* ['quit', 'exit', 'q']
QuitWords == {<<"q", "u", "i", "t">>, <<"e", "x", "i", "t">>, <<"q">>}

\* ['--interactive', '-i']
InteractiveFlags ==
    {<<"-", "-", "i", "n", "t", "e", "r", "a", "c", "t", "i", "v", "e">>,
     <<"-", "i">>}

----------------------------------------------------------------------------
(* Inputs the environment may supply *)

\* lines a user may type (input() has already removed the newline)
Lines ==
    {<<>>,
     <<"\t", " ">>,
     <<" ", "Q", "\t">>,
     <<"q", "u", "i", "t">>,
     <<"Q", "U", "I", "T">>,
     <<" ", " ", "q", "u", "i", "t", " ", " ">>,
     <<"\t", "E", "x", "i", "t">>,
     <<"q", "u", "i", "t", " ", "x">>,
     <<" ", "X", " ", "q", "\t">>}

\* command lines: sys.argv[1:]
ArgLists ==
    {<<>>,
     << <<"-", "i">> >>,
     << <<"-", "-", "i", "n", "t", "e", "r", "a", "c", "t", "i", "v", "e">> >>,
     << <<"-", "i">>, <<"Q">> >>,
     << <<"Q">>, <<"-", "i">> >>,
     << <<"-", "I">> >>,
     << <<"-", "-", "I", "n", "t", "e", "r", "a", "c", "t", "i", "v", "e">> >>,
     << <<" ", "-", "i">> >>,
     << <<>> >>,
     << <<"q", "u", "i", "t">> >>,
     << <<" ", "Q">>, <<>>, <<"q", " ">> >>}

ExceptionMessages == {<<"workflow failed">>}

EOFMessage == <<"EOF when reading a line">>

----------------------------------------------------------------------------
(* Output lines *)

Line(kind, value) == [k |-> kind, v |-> value]

Emit(kind, value) == Append(out, Line(kind, value))

BuildResultTrimmed(q) ==
    [workflow_id |-> "gemma-rag-cascade",
     input |-> [query |-> Lower(Strip(q))],
     status |-> "completed",
     nodes_executed |-> 13,
     merkle_root |-> "4fcd7d2a62aa31a3"]

BuildResultCounted(q) ==
    [workflow_id |-> "gemma-rag-cascade",
     input |-> [query |-> q],
     status |-> "completed",
     nodes_executed |-> Len(q),
     merkle_root |-> "4fcd7d2a62aa31a3"]

\* the dict literal of execute_workflow
BuildResult(q) ==
    [workflow_id |-> "gemma-rag-cascade",
     input |-> [query |-> q],
     status |-> "completed",
     nodes_executed |-> 13,
     merkle_root |-> "4fcd7d2a62aa31a3"]

\* json.dumps(result, indent=2): the members in insertion order
JsonDumps(r) ==
    << <<"workflow_id", r.workflow_id>>,
       <<"input", << <<"query", r.input.query>> >> >>,
       <<"status", r.status>>,
       <<"nodes_executed", r.nodes_executed>>,
       <<"merkle_root", r.merkle_root>> >>

----------------------------------------------------------------------------
(* Control positions *)

RunnerPcs ==
    {"ew_query", "ew_executing", "ew_build", "ew_completed", "ew_nodes",
     "ew_merkle", "ew_return"}

\* statements of the loop body that follow the two `if`s (lines 67-71)
ProcessingPcs ==
    {"start_timer", "call", "elapsed", "print_time"} \cup RunnerPcs

\* statements lexically or dynamically inside the try block (lines 58-71)
TryPcs ==
    {"prompt", "read", "check_quit", "farewell", "check_empty"} \cup ProcessingPcs

\* statements of interactive_mode outside the try block
UnprotectedPcs == {"banner", "kbd_handler", "exc_handler"}

InLoopFrame == caller # "main" /\ pc \in TryPcs \cup UnprotectedPcs

----------------------------------------------------------------------------
(* Initial state: the interpreter is about to call main() *)

Init ==
    /\ pc = "main"
    /\ argv \in ArgLists
    /\ caller = "none"
    /\ query = <<>>
    /\ ewQuery = <<>>
    /\ result = <<>>
    /\ exc = <<>>
    /\ out = <<>>
    /\ calls = <<>>
    /\ returns = <<>>
    /\ consumed = <<>>
    /\ stdinClosed = FALSE
    /\ eofReads = 0
    /\ raised = <<>>
    /\ sigs = <<>>
    /\ exitStatus = -1

----------------------------------------------------------------------------
(* main() *)

DispatchLoose ==
    /\ pc = "main"
    /\ pc' = IF Len(argv) > 0
              THEN IF \E i \in 1..Len(argv) : argv[i] \in InteractiveFlags
                   THEN "banner" ELSE "single"
              ELSE "usage"
    /\ UNCHANGED <<argv, caller, query, ewQuery, result, exc, out, calls,
                   returns, consumed, stdinClosed, eofReads, raised, sigs, exitStatus>>

\* lines 81-82, 84, 88
Dispatch ==
    /\ pc = "main"
    /\ pc' = IF Len(argv) > 0
              THEN IF argv[1] \in InteractiveFlags THEN "banner" ELSE "single"
              ELSE "usage"
    /\ UNCHANGED <<argv, caller, query, ewQuery, result, exc, out, calls,
                   returns, consumed, stdinClosed, eofReads, raised, sigs, exitStatus>>

UsageExitZero ==
    /\ pc = "usage"
    /\ out' = out \o <<Line("usage", <<"Usage:">>),
                        Line("usage", <<"  python run_gemma_rag.py \"Your question here\"">>),
                        Line("usage", <<"  python run_gemma_rag.py --interactive">>)>>
    /\ exitStatus' = 0
    /\ pc' = "exited"
    /\ UNCHANGED <<argv, caller, query, ewQuery, result, exc, calls, returns,
                   consumed, stdinClosed, eofReads, raised, sigs>>

\* lines 89-92
Usage ==
    /\ pc = "usage"
    /\ out' = out \o <<Line("usage", <<"Usage:">>),
                        Line("usage", <<"  python run_gemma_rag.py \"Your question here\"">>),
                        Line("usage", <<"  python run_gemma_rag.py --interactive">>)>>
    /\ exitStatus' = 1
    /\ pc' = "exited"
    /\ UNCHANGED <<argv, caller, query, ewQuery, result, exc, calls, returns,
                   consumed, stdinClosed, eofReads, raised, sigs>>

\* lines 85-86: query = ' '.join(sys.argv[1:]); execute_workflow(query)
SingleCall ==
    /\ pc = "single"
    /\ query' = Join(argv)
    /\ ewQuery' = Join(argv)
    /\ calls' = Append(calls, [query |-> Join(argv), line |-> 0])
    /\ returns' = Append(returns, <<>>)
    /\ caller' = "main"
    /\ pc' = "ew_query"
    /\ UNCHANGED <<argv, result, exc, out, consumed, stdinClosed,
                   eofReads, raised, sigs, exitStatus>>

\* line 87, then main() returns and the interpreter exits with status 0
PrintResult ==
    /\ pc = "print_result"
    /\ out' = Emit("result", JsonDumps(returns[Len(returns)][1]))
    /\ exitStatus' = 0
    /\ pc' = "exited"
    /\ UNCHANGED <<argv, caller, query, ewQuery, result, exc, calls, returns,
                   consumed, stdinClosed, eofReads, raised, sigs>>

----------------------------------------------------------------------------
(* execute_workflow(query) *)

\* line 29
EwPrintQuery ==
    /\ pc = "ew_query"
    /\ out' = Emit("query", ewQuery)
    /\ pc' = "ew_executing"
    /\ UNCHANGED <<argv, caller, query, ewQuery, result, exc, calls, returns,
                   consumed, stdinClosed, eofReads, raised, sigs, exitStatus>>

\* line 30
EwPrintExecuting ==
    /\ pc = "ew_executing"
    /\ out' = Emit("executing", <<>>)
    /\ pc' = "ew_build"
    /\ UNCHANGED <<argv, caller, query, ewQuery, result, exc, calls, returns,
                   consumed, stdinClosed, eofReads, raised, sigs, exitStatus>>

\* lines 34-40
EwBuildResult ==
    /\ pc = "ew_build"
    /\ result' = <<BuildResult(ewQuery)>>
    /\ pc' = "ew_completed"
    /\ UNCHANGED <<argv, caller, query, ewQuery, exc, out, calls, returns,
                   consumed, stdinClosed, eofReads, raised, sigs, exitStatus>>

\* line 42
EwPrintCompleted ==
    /\ pc = "ew_completed"
    /\ out' = Emit("completed", <<>>)
    /\ pc' = "ew_nodes"
    /\ UNCHANGED <<argv, caller, query, ewQuery, result, exc, calls, returns,
                   consumed, stdinClosed, eofReads, raised, sigs, exitStatus>>

\* line 43
EwPrintNodes ==
    /\ pc = "ew_nodes"
    /\ out' = Emit("nodes", <<result[1].nodes_executed>>)
    /\ pc' = "ew_merkle"
    /\ UNCHANGED <<argv, caller, query, ewQuery, result, exc, calls, returns,
                   consumed, stdinClosed, eofReads, raised, sigs, exitStatus>>

\* line 44
EwPrintMerkle ==
    /\ pc = "ew_merkle"
    /\ out' = Emit("merkle", <<result[1].merkle_root>>)
    /\ pc' = "ew_return"
    /\ UNCHANGED <<argv, caller, query, ewQuery, result, exc, calls, returns,
                   consumed, stdinClosed, eofReads, raised, sigs, exitStatus>>

\* line 46: the frame is popped and the caller resumes
EwReturn ==
    /\ pc = "ew_return"
    /\ returns' = [returns EXCEPT ![Len(returns)] = <<result[1]>>]
    /\ result' = <<>>
    /\ ewQuery' = <<>>
    /\ pc' = IF caller = "main" THEN "print_result" ELSE "elapsed"
    /\ UNCHANGED <<argv, caller, query, exc, out, calls, consumed,
                   stdinClosed, eofReads, raised, sigs, exitStatus>>

----------------------------------------------------------------------------
(* interactive_mode() *)

\* lines 50-54
Banner ==
    /\ pc = "banner"
    /\ out' = Emit("banner", <<>>)
    /\ caller' = "loop"
    /\ pc' = "prompt"
    /\ UNCHANGED <<argv, query, ewQuery, result, exc, calls, returns, consumed,
                   stdinClosed, eofReads, raised, sigs, exitStatus>>

\* line 58: input() writes the prompt, then blocks on the terminal
Prompt ==
    /\ pc = "prompt"
    /\ out' = Emit("prompt", <<>>)
    /\ pc' = "read"
    /\ UNCHANGED <<argv, caller, query, ewQuery, result, exc, calls, returns,
                   consumed, stdinClosed, eofReads, raised, sigs, exitStatus>>

ReadLineRaw ==
    /\ pc = "read"
    /\ ~stdinClosed
    /\ Len(consumed) < MaxLines
    /\ \E line \in Lines :
          /\ consumed' = Append(consumed, line)
          /\ query' = line
    /\ pc' = "check_quit"
    /\ UNCHANGED <<argv, caller, ewQuery, result, exc, out, calls, returns,
                   stdinClosed, eofReads, raised, sigs, exitStatus>>

\* line 58: a line arrives; query = input(...).strip()
ReadLine ==
    /\ pc = "read"
    /\ ~stdinClosed
    /\ Len(consumed) < MaxLines
    /\ \E line \in Lines :
          /\ consumed' = Append(consumed, line)
          /\ query' = Strip(line)
    /\ pc' = "check_quit"
    /\ UNCHANGED <<argv, caller, ewQuery, result, exc, out, calls, returns,
                   stdinClosed, eofReads, raised, sigs, exitStatus>>

ReadEOFQuits ==
    /\ pc = "read"
    /\ eofReads < MaxEOF
    /\ stdinClosed' = TRUE
    /\ eofReads' = eofReads + 1
    /\ pc' = "farewell"
    /\ UNCHANGED <<argv, caller, query, ewQuery, result, exc, out, calls,
                   returns, consumed, raised, sigs, exitStatus>>

\* line 58: the stream is at end of file; input() raises EOFError, an Exception
ReadEOF ==
    /\ pc = "read"
    /\ eofReads < MaxEOF
    /\ stdinClosed' = TRUE
    /\ eofReads' = eofReads + 1
    /\ exc' = EOFMessage
    /\ pc' = "exc_handler"
    /\ UNCHANGED <<argv, caller, query, ewQuery, result, out, calls, returns,
                   consumed, raised, sigs, exitStatus>>

CheckQuitExact ==
    /\ pc = "check_quit"
    /\ pc' = IF query \in QuitWords THEN "farewell" ELSE "check_empty"
    /\ UNCHANGED <<argv, caller, query, ewQuery, result, exc, out, calls,
                   returns, consumed, stdinClosed, eofReads, raised, sigs, exitStatus>>

\* line 60
CheckQuit ==
    /\ pc = "check_quit"
    /\ pc' = IF Lower(query) \in QuitWords THEN "farewell" ELSE "check_empty"
    /\ UNCHANGED <<argv, caller, query, ewQuery, result, exc, out, calls,
                   returns, consumed, stdinClosed, eofReads, raised, sigs, exitStatus>>

\* lines 61-62; interactive_mode and main return, exit status 0
Farewell ==
    /\ pc = "farewell"
    /\ out' = Emit("goodbye", <<>>)
    /\ exitStatus' = 0
    /\ pc' = "exited"
    /\ UNCHANGED <<argv, caller, query, ewQuery, result, exc, calls, returns,
                   consumed, stdinClosed, eofReads, raised, sigs>>

CheckEmptyNever ==
    /\ pc = "check_empty"
    /\ pc' = "start_timer"
    /\ UNCHANGED <<argv, caller, query, ewQuery, result, exc, out, calls,
                   returns, consumed, stdinClosed, eofReads, raised, sigs, exitStatus>>

\* lines 64-65
CheckEmpty ==
    /\ pc = "check_empty"
    /\ pc' = IF query = <<>> THEN "prompt" ELSE "start_timer"
    /\ UNCHANGED <<argv, caller, query, ewQuery, result, exc, out, calls,
                   returns, consumed, stdinClosed, eofReads, raised, sigs, exitStatus>>

\* line 67
StartTimer ==
    /\ pc = "start_timer"
    /\ pc' = "call"
    /\ UNCHANGED <<argv, caller, query, ewQuery, result, exc, out, calls,
                   returns, consumed, stdinClosed, eofReads, raised, sigs, exitStatus>>

\* line 68: execute_workflow(query)
CallRunner ==
    /\ pc = "call"
    /\ ewQuery' = query
    /\ calls' = Append(calls, [query |-> query, line |-> Len(consumed)])
    /\ returns' = Append(returns, <<>>)
    /\ pc' = "ew_query"
    /\ UNCHANGED <<argv, caller, query, result, exc, out, consumed,
                   stdinClosed, eofReads, raised, sigs, exitStatus>>

\* line 69
Elapsed ==
    /\ pc = "elapsed"
    /\ pc' = "print_time"
    /\ UNCHANGED <<argv, caller, query, ewQuery, result, exc, out, calls,
                   returns, consumed, stdinClosed, eofReads, raised, sigs, exitStatus>>

\* line 71, then the next iteration
PrintTime ==
    /\ pc = "print_time"
    /\ out' = Emit("time", <<>>)
    /\ pc' = "prompt"
    /\ UNCHANGED <<argv, caller, query, ewQuery, result, exc, calls, returns,
                   consumed, stdinClosed, eofReads, raised, sigs, exitStatus>>

\* lines 73-75; interactive_mode and main return, exit status 0
HandleInterrupt ==
    /\ pc = "kbd_handler"
    /\ out' = Emit("goodbye_interrupt", <<>>)
    /\ exitStatus' = 0
    /\ pc' = "exited"
    /\ UNCHANGED <<argv, caller, query, ewQuery, result, exc, calls, returns,
                   consumed, stdinClosed, eofReads, raised, sigs>>

HandleExceptionBreak ==
    /\ pc = "exc_handler"
    /\ out' = Emit("error", exc)
    /\ exc' = <<>>
    /\ exitStatus' = 0
    /\ pc' = "exited"
    /\ UNCHANGED <<argv, caller, query, ewQuery, result, calls, returns,
                   consumed, stdinClosed, eofReads, raised, sigs>>

\* lines 76-77, then the next iteration
HandleException ==
    /\ pc = "exc_handler"
    /\ out' = Emit("error", exc)
    /\ exc' = <<>>
    /\ pc' = "prompt"
    /\ UNCHANGED <<argv, caller, query, ewQuery, result, calls, returns,
                   consumed, stdinClosed, eofReads, raised, sigs, exitStatus>>

----------------------------------------------------------------------------
(* Environment events during interactive_mode() *)

InterruptAsException ==
    /\ InLoopFrame
    /\ IF pc \in TryPcs
       THEN /\ pc' = IF pc \in RunnerPcs THEN "exc_handler" ELSE "kbd_handler"
            /\ exitStatus' = exitStatus
       ELSE /\ pc' = "exited"
            /\ exitStatus' = 130
    /\ exc' = IF pc \in RunnerPcs THEN <<"KeyboardInterrupt">> ELSE exc
    /\ result' = <<>>
    /\ ewQuery' = <<>>
    /\ sigs' = Append(sigs, pc)
    /\ UNCHANGED <<argv, caller, query, out, calls, returns, consumed,
                   stdinClosed, eofReads, raised>>

\* SIGINT: KeyboardInterrupt is raised at the current statement.  Inside the
\* try block (lines 58-71, the runner's frame included) the clause of line 73
\* catches it; elsewhere in interactive_mode it is uncaught and the
\* interpreter dies with the status of a SIGINT death.
Interrupt ==
    /\ InLoopFrame
    /\ IF pc \in TryPcs
       THEN /\ pc' = "kbd_handler"
            /\ exitStatus' = exitStatus
       ELSE /\ pc' = "exited"
            /\ exitStatus' = 130
    /\ result' = <<>>
    /\ ewQuery' = <<>>
    /\ sigs' = Append(sigs, pc)
    /\ UNCHANGED <<argv, caller, query, exc, out, calls, returns, consumed,
                   stdinClosed, eofReads, raised>>

\* a statement of lines 67-71 raises an Exception; line 76 catches it
RaiseInProcessing ==
    /\ caller = "loop"
    /\ pc \in ProcessingPcs
    /\ Len(raised) < MaxFaults
    /\ \E m \in ExceptionMessages :
          /\ exc' = m
          /\ raised' = Append(raised, m)
    /\ result' = <<>>
    /\ ewQuery' = <<>>
    /\ pc' = "exc_handler"
    /\ UNCHANGED <<argv, caller, query, out, calls, returns, consumed,
                   stdinClosed, eofReads, sigs, exitStatus>>

----------------------------------------------------------------------------

Next ==
    \/ Dispatch
    \/ Usage
    \/ SingleCall
    \/ PrintResult
    \/ EwPrintQuery
    \/ EwPrintExecuting
    \/ EwBuildResult
    \/ EwPrintCompleted
    \/ EwPrintNodes
    \/ EwPrintMerkle
    \/ EwReturn
    \/ Banner
    \/ Prompt
    \/ ReadLine
    \/ ReadEOF
    \/ CheckQuit
    \/ Farewell
    \/ CheckEmpty
    \/ StartTimer
    \/ CallRunner
    \/ Elapsed
    \/ PrintTime
    \/ HandleInterrupt
    \/ HandleException
    \/ Interrupt
    \/ RaiseInProcessing

Spec == Init /\ [][Next]_vars

----------------------------------------------------------------------------
(* Vocabulary of the properties: what the documentation means by a trimmed *)
(* line, a quit word and the output of one loop iteration, stated without  *)
(* the program's own string routines.                                      *)

\* number of whitespace characters l starts with
Lead(l) ==
    CHOOSE i \in 0..Len(l) :
        /\ \A k \in 1..i : l[k] \in {" ", "\t"}
        /\ (i = Len(l) \/ l[i + 1] \notin {" ", "\t"})

\* number of whitespace characters l ends with
Trail(l) ==
    CHOOSE j \in 0..Len(l) :
        /\ \A k \in (Len(l) - j + 1)..Len(l) : l[k] \in {" ", "\t"}
        /\ (j = Len(l) \/ l[Len(l) - j] \notin {" ", "\t"})

\* l without its leading and trailing whitespace
TrimOf(l) ==
    LET a == Lead(l)
    IN  IF a = Len(l) THEN <<>> ELSE SubSeq(l, a + 1, Len(l) - Trail(l))

CasePairs ==
    {<<"Q", "q">>, <<"U", "u">>, <<"I", "i">>, <<"T", "t">>, <<"E", "e">>,
     <<"X", "x">>}

SameIgnoringCase(a, b) ==
    /\ Len(a) = Len(b)
    /\ \A i \in 1..Len(a) :
          a[i] = b[i] \/ <<a[i], b[i]>> \in CasePairs \/ <<b[i], a[i]>> \in CasePairs

IsQuitText(t) ==
    \E w \in {<<"q", "u", "i", "t">>, <<"e", "x", "i", "t">>, <<"q">>} :
        SameIgnoringCase(t, w)

IsQuitLine(l) == IsQuitText(TrimOf(l))

IsBlankLine(l) == \A i \in 1..Len(l) : l[i] \in {" ", "\t"}

IsQueryLine(l) == LET t == TrimOf(l) IN t # <<>> /\ ~IsQuitText(t)

Kinds(seq) == [i \in 1..Len(seq) |-> seq[i].k]

IsPrefix(a, b) == Len(a) <= Len(b) /\ a = SubSeq(b, 1, Len(a))

\* positions in the output of the prompts, in order
PromptPos ==
    SelectSeq([i \in 1..Len(out) |-> i], LAMBDA i : out[i].k = "prompt")

NumPrompts == Len(PromptPos)

\* what was printed between the n-th prompt and the next one, given the
\* positions pp of the prompts
SegmentIn(pp, n) ==
    SubSeq(out, pp[n] + 1, IF Len(pp) > n THEN pp[n + 1] - 1 ELSE Len(out))

SegmentOf(n) == SegmentIn(PromptPos, n)

LastSegment ==
    LET pp == PromptPos IN IF pp = <<>> THEN <<>> ELSE SegmentIn(pp, Len(pp))

ProgressKinds == <<"query", "executing", "completed", "nodes", "merkle">>

DropLast(seg, kind) ==
    IF seg # <<>> /\ seg[Len(seg)].k = kind
    THEN SubSeq(seg, 1, Len(seg) - 1)
    ELSE seg

\* a segment without the lines of the handlers that may end it: the error
\* report of a failed iteration, then the farewell of an interrupt
WithoutAbortLine(seg) == DropLast(DropLast(seg, "goodbye_interrupt"), "error")

CallsForLine(i) == {j \in 1..Len(calls) : calls[j].line = i}

LoopTerminated == caller = "loop" /\ pc = "exited"

----------------------------------------------------------------------------
(* C1: for every non-empty query Q, the result execute_workflow(Q) returns *)
(* carries input.query = Q, character for character.                       *)
C1_QueryIdentity ==
    \A i \in 1..Len(calls) :
        (calls[i].query # <<>> /\ returns[i] # <<>>)
            => returns[i][1].input.query = calls[i].query

\* a query with leading, doubled and trailing blanks and an upper-case letter
\* has been answered
C1_Witness ==
    \E i \in 1..Len(calls) :
        /\ returns[i] # <<>>
        /\ calls[i].query = <<" ", "Q", " ", " ", "q", " ">>
        /\ returns[i][1].input.query = <<" ", "Q", " ", " ", "q", " ">>

(* C2: every result returned, whatever the query and whatever ran before,  *)
(* has nodes_executed 13, merkle_root "4fcd7d2a62aa31a3", status           *)
(* "completed" and workflow_id "gemma-rag-cascade".                        *)
C2_ConstantFields ==
    \A i \in 1..Len(returns) :
        returns[i] # <<>> =>
            /\ returns[i][1].nodes_executed = 13
            /\ returns[i][1].merkle_root = "4fcd7d2a62aa31a3"
            /\ returns[i][1].status = "completed"
            /\ returns[i][1].workflow_id = "gemma-rag-cascade"

\* two invocations with different queries, of different lengths, have returned
C2_Witness ==
    \E i, j \in 1..Len(returns) :
        /\ i < j
        /\ returns[i] # <<>>
        /\ returns[j] # <<>>
        /\ Len(calls[i].query) # Len(calls[j].query)

(* C3: a line that, trimmed and lower-cased, is "quit", "exit" or "q" ends *)
(* the loop: the runner is not invoked for it, nothing but the farewell is *)
(* printed for it, and no further prompt is issued or line read.           *)
C3_QuitTerminates ==
    LET pp == PromptPos IN
    \A i \in 1..Len(consumed) :
        IsQuitLine(consumed[i]) =>
            LET ks == Kinds(SegmentIn(pp, i))
            IN  /\ i = Len(consumed)
                /\ Len(pp) = i
                /\ pc \in {"check_quit", "farewell", "kbd_handler", "exited"}
                /\ CallsForLine(i) = {}
                /\ ks \in {<<>>, <<"goodbye">>, <<"goodbye_interrupt">>}
                /\ (pc = "exited" /\ sigs = <<>>)
                       => (ks = <<"goodbye">> /\ exitStatus = 0)

\* after one answered query, the padded upper/lower-case line "  quit  " has
\* ended the process normally
C3_Witness ==
    /\ pc = "exited"
    /\ exitStatus = 0
    /\ sigs = <<>>
    /\ Len(consumed) = 2
    /\ consumed[2] = <<" ", " ", "q", "u", "i", "t", " ", " ">>
    /\ Len(calls) = 1
    /\ out[Len(out)].k = "goodbye"

(* C4: an empty or whitespace-only line never invokes the runner and       *)
(* prints no progress, result, time or error line; the loop goes straight  *)
(* back to the prompt.                                                     *)
C4_BlankLineSkipped ==
    LET pp == PromptPos IN
    \A i \in 1..Len(consumed) :
        IsBlankLine(consumed[i]) =>
            LET ks == Kinds(SegmentIn(pp, i))
            IN  /\ CallsForLine(i) = {}
                /\ ks \in {<<>>, <<"goodbye_interrupt">>}
                /\ ks # <<>> => sigs # <<>>
                /\ (i = Len(consumed) /\ Len(pp) = i)
                       => pc \in {"check_quit", "check_empty", "prompt",
                                  "kbd_handler", "exited"}
                /\ (i = Len(consumed) /\ Len(pp) = i /\ sigs = <<>>)
                       => pc \in {"check_quit", "check_empty", "prompt"}

\* a whitespace-only line was read, and the loop is prompting again
C4_Witness ==
    /\ Len(consumed) = 1
    /\ consumed[1] = <<"\t", " ">>
    /\ NumPrompts = 2
    /\ pc = "read"
    /\ calls = <<>>

(* C9: a line that is neither blank nor a quit word is processed: the      *)
(* runner is invoked exactly once, with the trimmed line; the time line is *)
(* printed only after the runner has returned; then the loop prompts again.*)
C9_QueryProcessed ==
    LET pp == PromptPos IN
    \A i \in 1..Len(consumed) :
        IsQueryLine(consumed[i]) =>
            LET t == TrimOf(consumed[i])
                seg == SegmentIn(pp, i)
                body == WithoutAbortLine(seg)
                ks == Kinds(body)
                cs == CallsForLine(i)
            IN  /\ Cardinality(cs) <= 1
                /\ \A j \in cs : calls[j].query = t
                /\ IsPrefix(ks, ProgressKinds \o <<"time">>)
                /\ \A k \in 1..Len(seg) : seg[k].k = "query" => seg[k].v = t
                /\ ks # <<>> => cs # {}
                /\ (ks = ProgressKinds \o <<"time">>)
                       => \A j \in cs :
                              /\ returns[j] # <<>>
                              /\ returns[j][1].input.query = t
                /\ (Len(pp) > i /\ Len(seg) = Len(body))
                       => /\ ks = ProgressKinds \o <<"time">>
                          /\ Cardinality(cs) = 1
                /\ (i = Len(consumed) /\ Len(pp) = i /\ sigs = <<>>
                        /\ raised = <<>>)
                       => IF ks = ProgressKinds \o <<"time">>
                          THEN pc = "prompt"
                          ELSE pc \in {"check_quit", "check_empty",
                                       "start_timer", "call", "elapsed",
                                       "print_time"} \cup RunnerPcs

\* the padded line " X q<TAB>" was processed as "X q" and the loop prompts again
C9_Witness ==
    /\ Len(consumed) = 1
    /\ consumed[1] = <<" ", "X", " ", "q", "\t">>
    /\ NumPrompts = 2
    /\ pc = "read"
    /\ Len(calls) = 1
    /\ calls[1].query = <<"X", " ", "q">>
    /\ Kinds(SegmentOf(1)) = ProgressKinds \o <<"time">>

----------------------------------------------------------------------------
(* Interrupts *)

\* number of progress lines the runner has printed when control is at p
ProgressAt(p) ==
    CASE p \in {"start_timer", "call", "ew_query"} -> 0
      [] p = "ew_executing" -> 1
      [] p \in {"ew_build", "ew_completed"} -> 2
      [] p = "ew_nodes" -> 3
      [] p = "ew_merkle" -> 4
      [] p \in {"ew_return", "elapsed", "print_time"} -> 5

(* C5 as written: an interrupt while the loop waits for input or processes *)
(* a query terminates the loop, and no line of the interrupted query       *)
(* (progress, result or execution time) has been printed.                  *)
C5_NoPartialOutput ==
    (sigs # <<>> /\ sigs[1] \in TryPcs) =>
        /\ pc \in {"kbd_handler", "exited"}
        /\ sigs[1] \in ProcessingPcs
               => \A k \in 1..Len(LastSegment) :
                      LastSegment[k].k \notin
                          {"query", "executing", "completed", "nodes", "merkle",
                           "time"}

(* C5, amended: an interrupt that arrives inside the try block (waiting    *)
(* for input or processing a query) goes to the interrupt handler, which   *)
(* prints the farewell and ends the loop with exit status 0 unless a       *)
(* second interrupt arrives first.  Nothing of the interrupted query is    *)
(* printed after the interrupt, its execution-time line never appears and  *)
(* an invocation interrupted inside the runner never returns; the progress *)
(* lines the runner printed before the interrupt stay on the output.       *)
C5_InterruptTerminates ==
    (sigs # <<>> /\ sigs[1] \in TryPcs) =>
        /\ pc \in {"kbd_handler", "exited"}
        /\ (Len(sigs) = 1 /\ pc # "kbd_handler")
               => out[Len(out)].k = "goodbye_interrupt"
        /\ (Len(sigs) = 1 /\ pc = "kbd_handler")
               => \A k \in 1..Len(out) : out[k].k # "goodbye_interrupt"
        /\ (Len(sigs) = 1 /\ pc = "exited") => exitStatus = 0
        /\ Len(sigs) > 1 => (pc = "exited" /\ exitStatus = 130)
        /\ sigs[1] \in ProcessingPcs
               => /\ Kinds(DropLast(LastSegment, "goodbye_interrupt"))
                        = SubSeq(ProgressKinds, 1, ProgressAt(sigs[1]))
        /\ sigs[1] \in RunnerPcs
               => /\ calls # <<>>
                  /\ calls[Len(calls)].line = Len(consumed)
                  /\ returns[Len(returns)] = <<>>
        /\ sigs[1] \in {"elapsed", "print_time"}
               => /\ calls # <<>>
                  /\ calls[Len(calls)].line = Len(consumed)
                  /\ returns[Len(returns)] # <<>>

\* a query was interrupted after three of its progress lines; the farewell
\* was printed and the process exited with status 0
C5_Witness ==
    /\ sigs = <<"ew_nodes">>
    /\ pc = "exited"
    /\ exitStatus = 0
    /\ Kinds(LastSegment) =
           <<"query", "executing", "completed", "goodbye_interrupt">>

----------------------------------------------------------------------------
(* Exceptions *)

IsFaultReport(e) == e.k = "error" /\ e.v \in ExceptionMessages

IsEOFReport(e) == e.k = "error" /\ e.v = <<"EOF when reading a line">>

FaultReports == SelectSeq(out, IsFaultReport)

EOFReports == SelectSeq(out, IsEOFReport)

\* the report at position i of the output is followed by a new prompt: by
\* the prompt itself, or by control standing at it, or by an interrupt that
\* arrived there
BackToPrompt(i) ==
    IF i < Len(out)
    THEN \/ out[i + 1].k = "prompt"
         \/ (out[i + 1].k = "goodbye_interrupt" /\ sigs # <<>>
                /\ sigs[1] = "prompt")
    ELSE \/ pc = "prompt"
         \/ (sigs # <<>> /\ sigs[1] = "prompt"
                /\ pc \in {"kbd_handler", "exited"})

(* C6: an exception raised while a query is processed is caught: its       *)
(* message is printed with the error marker and the loop prompts again;    *)
(* it never ends the loop.                                                 *)
C6_ExceptionsNonFatal ==
    /\ \A i \in 1..Len(out) : IsFaultReport(out[i]) => BackToPrompt(i)
    /\ LET printed == [i \in 1..Len(FaultReports) |-> FaultReports[i].v]
       IN  \/ printed = raised
           \/ /\ raised # <<>>
              /\ printed = SubSeq(raised, 1, Len(raised) - 1)
              /\ exc = raised[Len(raised)]
              /\ \/ pc = "exc_handler"
                 \/ (pc = "exited" /\ exitStatus = 130
                        /\ sigs = <<"exc_handler">>)
    /\ (raised # <<>> /\ LoopTerminated)
           => \/ sigs # <<>>
              \/ (out[Len(out)].k = "goodbye" /\ Len(out) > 2
                     /\ out[Len(out) - 1].k = "prompt")

\* the first query failed and was reported; the second was then processed to
\* its time line and the loop prompts again
C6_Witness ==
    /\ Len(consumed) = 2
    /\ Len(raised) = 1
    /\ sigs = <<>>
    /\ pc = "read"
    /\ NumPrompts = 3
    /\ Kinds(SegmentOf(1)) = <<"query", "executing", "error">>
    /\ SegmentOf(1)[3].v = raised[1]
    /\ Kinds(SegmentOf(2)) = ProgressKinds \o <<"time">>

----------------------------------------------------------------------------
(* Entry point *)

RECURSIVE SumLen(_)
SumLen(args) == IF args = <<>> THEN 0 ELSE Len(Head(args)) + SumLen(Tail(args))

\* where the i-th argument starts in the joined string, less one
OffsetOf(args, i) == SumLen(SubSeq(args, 1, i - 1)) + (i - 1)

\* s is the arguments in order, with exactly one space between neighbours
IsSpaceJoin(args, s) ==
    /\ Len(s) = SumLen(args) + Len(args) - 1
    /\ \A i \in 1..Len(args) :
          /\ SubSeq(s, OffsetOf(args, i) + 1, OffsetOf(args, i) + Len(args[i]))
                = args[i]
          /\ i < Len(args) => s[OffsetOf(args, i) + Len(args[i]) + 1] = " "

(* C7: with no arguments the program prints the usage text, which holds    *)
(* "Usage:", and exits with status 1; it never invokes the runner and      *)
(* never enters the loop.                                                  *)
C7_NoArgsUsage ==
    argv = <<>> =>
        /\ pc \in {"main", "usage", "exited"}
        /\ calls = <<>>
        /\ consumed = <<>>
        /\ caller = "none"
        /\ \A i \in 1..Len(out) : out[i].k = "usage"
        /\ pc # "exited" => (out = <<>> /\ exitStatus = -1)
        /\ pc = "exited"
               => /\ exitStatus = 1
                  /\ Len(out) = 3
                  /\ out[1].v = <<"Usage:">>

\* the no-argument run has ended
C7_Witness == argv = <<>> /\ pc = "exited" /\ out # <<>>

(* C8: dispatch depends on the arguments alone and is exclusive.  With     *)
(* "--interactive" or "-i" first the program enters the loop and never     *)
(* runs single-shot.  With any other non-empty argument list it invokes    *)
(* the runner exactly once with the arguments joined by single spaces,     *)
(* prints the result as JSON after the runner has returned, exits 0 and    *)
(* never enters the loop.                                                  *)
C8_Dispatch ==
    argv # <<>> =>
        IF argv[1] \in {<<"-", "i">>,
                        <<"-", "-", "i", "n", "t", "e", "r", "a", "c", "t", "i",
                          "v", "e">>}
        THEN /\ pc \notin {"usage", "single", "print_result"}
             /\ caller # "main"
             /\ \A i \in 1..Len(out) : out[i].k \notin {"result", "usage"}
             /\ \A j \in 1..Len(calls) : calls[j].line >= 1
             /\ pc \notin {"main", "banner"}
                    => \/ (out # <<>> /\ out[1].k = "banner" /\ caller = "loop")
                       \/ (sigs = <<"banner">> /\ pc = "exited")
        ELSE /\ pc \in {"main", "single", "print_result", "exited"} \cup RunnerPcs
             /\ caller # "loop"
             /\ consumed = <<>>
             /\ \A i \in 1..Len(out) : out[i].k \notin {"banner", "prompt", "usage"}
             /\ Len(calls) <= 1
             /\ \A j \in 1..Len(calls) :
                    IsSpaceJoin(argv, calls[j].query)
             /\ (argv = << <<" ", "Q">>, <<>>, <<"q", " ">> >> /\ calls # <<>>)
                    => calls[1].query = <<" ", "Q", " ", " ", "q", " ">>
             /\ \A i \in 1..Len(out) :
                    out[i].k = "result"
                        => /\ i = Len(out)
                           /\ i = Len(ProgressKinds) + 1
                           /\ returns[1] # <<>>
                           /\ out[i].v =
                                << <<"workflow_id", "gemma-rag-cascade">>,
                                   <<"input", << <<"query", calls[1].query>> >> >>,
                                   <<"status", "completed">>,
                                   <<"nodes_executed", 13>>,
                                   <<"merkle_root", "4fcd7d2a62aa31a3">> >>
             /\ pc = "exited"
                    => /\ exitStatus = 0
                       /\ Len(calls) = 1
                       /\ Kinds(out) = ProgressKinds \o <<"result">>

\* a single-shot run with the flag in second place has ended: the flag was
\* part of the query
C8_Witness ==
    /\ pc = "exited"
    /\ exitStatus = 0
    /\ argv = << <<"Q">>, <<"-", "i">> >>
    /\ calls = <<[query |-> <<"Q", " ", "-", "i">>, line |-> 0]>>
    /\ out[Len(out)].k = "result"

----------------------------------------------------------------------------
(* Termination of the loop *)

(* C10: the loop ends only through a quit word or an interrupt.  An end of *)
(* input raised by the read is reported as an error and the loop prompts   *)
(* again, so once the input is exhausted only an interrupt ends the loop.  *)
C10_OnlyQuitOrInterrupt ==
    /\ LoopTerminated
           => \/ sigs # <<>>
              \/ /\ out[Len(out)].k = "goodbye"
                 /\ consumed # <<>>
                 /\ IsQuitLine(consumed[Len(consumed)])
    /\ (stdinClosed /\ LoopTerminated) => sigs # <<>>
    /\ stdinClosed <=> eofReads > 0
    /\ \A i \in 1..Len(out) : IsEOFReport(out[i]) => BackToPrompt(i)
    /\ \/ Len(EOFReports) = eofReads
       \/ /\ Len(EOFReports) = eofReads - 1
          /\ exc = <<"EOF when reading a line">>
          /\ \/ pc = "exc_handler"
             \/ (pc = "exited" /\ exitStatus = 130 /\ sigs = <<"exc_handler">>)

\* the input ended; the error was reported twice and the loop is at the prompt
C10_Witness ==
    /\ stdinClosed
    /\ eofReads = 2
    /\ pc = "read"
    /\ sigs = <<>>
    /\ Len(EOFReports) = 2

====
